---------------------------- MODULE Spec2Model ----------------------------
(***************************************************************************)
(* The HTTP/3 framing layer of quinn-h3 (quinn-h3/src/frame.rs).           *)
(*                                                                         *)
(* FrameDecoder::decode is modelled as the operator Decode, one operator   *)
(* per arm of the function, and driven by a state machine in which the     *)
(* transport delivers the bytes of a wire stream in arbitrary chunks and   *)
(* the codec calls decode at arbitrary moments.                            *)
(*                                                                         *)
(* The frame parser the decoder calls (proto::frame: HttpFrame::decode,    *)
(* PartialData::decode, PartialData::decode_data, the varint codec) is not *)
(* part of frame.rs; it is modelled from the framing contract of the       *)
(* specification (wire format: type varint, length varint, payload).       *)
(***************************************************************************)
EXTENDS Integers, Sequences, FiniteSets, TLC

(***************************************************************************)
(* Bounds of the model.                                                    *)
(***************************************************************************)
\* Longest Data / Headers payload put on the wire.
MaxPayload == 3

\* Most frames encoded into one wire stream.
MaxFrames == 2

(***************************************************************************)
(* Option values: None is the empty sequence, Some(x) the singleton.       *)
(***************************************************************************)
None == <<>>

Some(x) == <<x>>

Min(a, b) == IF a < b THEN a ELSE b

\* bytes::Buf::advance: drop the first n bytes of the buffer.
Advance(buf, n) == SubSeq(buf, n + 1, Len(buf))

\* The first n bytes of the buffer.
Take(buf, n) == SubSeq(buf, 1, n)

(***************************************************************************)
(* Variable-length integers (the transport's prefix-encoded scheme): the   *)
(* two top bits of the first byte give the width 1, 2, 4 or 8, the other   *)
(* bits are the value, big endian.                                         *)
(***************************************************************************)
\* Widest encoding of a varint, in bytes.
VarIntMaxSize == 8

Pow2(n) == IF n = 0 THEN 1 ELSE IF n = 1 THEN 2 ELSE IF n = 2 THEN 4 ELSE 8

\* Width announced by the first byte of a varint.
VarSize(b) == Pow2(b \div 64)

RECURSIVE BigEndian(_)
\* Value of a byte string read as a big-endian number.
BigEndian(bs) ==
    IF bs = <<>> THEN 0
    ELSE BigEndian(Take(bs, Len(bs) - 1)) * 256 + bs[Len(bs)]

RECURSIVE ToBytes(_, _)
\* v as n big-endian bytes.
ToBytes(v, n) ==
    IF n = 0 THEN <<>>
    ELSE Append(ToBytes(v \div 256, n - 1), v % 256)

\* BufExt::get_var: [ok, val, len]; fails when the varint is not all there.
GetVar(buf) ==
    IF buf = <<>> THEN [ok |-> FALSE, val |-> 0, len |-> 0]
    ELSE LET n == VarSize(buf[1])
         IN IF Len(buf) < n THEN [ok |-> FALSE, val |-> 0, len |-> 0]
            ELSE [ok |-> TRUE,
                  val |-> BigEndian(<<buf[1] % 64>> \o SubSeq(buf, 2, n)),
                  len |-> n]

\* BufMutExt::write_var: the shortest encoding of v (v < 2^30 in this model).
PutVar(v) ==
    LET w == IF v < 64 THEN 0 ELSE IF v < 16384 THEN 1 ELSE 2
        bs == ToBytes(v, Pow2(w))
    IN [bs EXCEPT ![1] = @ + 64 * w]

(***************************************************************************)
(* Frames.  A frame value is [kind, payload]; Data and Headers carry       *)
(* opaque bytes, Settings a sequence of <<id, value>> entries, Goaway one  *)
(* stream id.  The three last kinds are wire images no encoder produces:   *)
(* an HTTP/2-only frame type, a Settings frame with a reserved id, and a   *)
(* Settings frame cut inside an entry.                                     *)
(***************************************************************************)
TypeData == 0

TypeHeaders == 1

TypeH2Priority == 2

TypeSettings == 4

TypeGoaway == 7

NoFrame == [kind |-> "NoFrame", payload |-> <<>>]

DataOf(bytes) == [kind |-> "Data", payload |-> bytes]

\* Payload bytes of the model: the i-th byte of a payload is i % 5, so that
\* payloads hold distinct bytes, some of which read as frame headers.
Pattern(n) == [i \in 1..n |-> i % 5]

DataFrames == {DataOf(Pattern(n)) : n \in 0..MaxPayload}

HeadersFrames == {[kind |-> "Headers", payload |-> Pattern(n)] : n \in {0, MaxPayload}}

SettingsFrames == {[kind |-> "Settings", payload |-> << <<1, 3>> >>]}

GoawayFrames == {[kind |-> "Goaway", payload |-> <<300>>]}

ValidFrames == DataFrames \cup HeadersFrames \cup SettingsFrames \cup GoawayFrames

BadFrames ==
    { [kind |-> "H2Priority", payload |-> <<>>],
      [kind |-> "SettingsReservedId", payload |-> <<2, 3>>],
      [kind |-> "SettingsCut", payload |-> <<1>>] }

\* FrameHeader::TYPE of each kind.
TypeOf(f) ==
    CASE f.kind = "Data" -> TypeData
      [] f.kind = "Headers" -> TypeHeaders
      [] f.kind = "H2Priority" -> TypeH2Priority
      [] f.kind = "Goaway" -> TypeGoaway
      [] OTHER -> TypeSettings

RECURSIVE EncodeEntries(_)
\* Settings entries as bytes: id varint, value varint, per entry.
EncodeEntries(es) ==
    IF es = <<>> THEN <<>>
    ELSE PutVar(es[1][1]) \o PutVar(es[1][2]) \o EncodeEntries(Tail(es))

\* IntoPayload::into_payload: the payload bytes of a frame.
PayloadBytes(f) ==
    CASE f.kind = "Settings" -> EncodeEntries(f.payload)
      [] f.kind = "Goaway" -> PutVar(f.payload[1])
      [] OTHER -> f.payload

\* FrameHeader::encode_header: type varint, length varint.
EncodeHeader(f) == PutVar(TypeOf(f)) \o PutVar(Len(PayloadBytes(f)))

\* HttpFrame::encode: header then payload.
Encode(f) == EncodeHeader(f) \o PayloadBytes(f)

RECURSIVE EncodeAll(_)
EncodeAll(fs) == IF fs = <<>> THEN <<>> ELSE Encode(fs[1]) \o EncodeAll(Tail(fs))


(***************************************************************************)
(* The frame parser (proto::frame), from the framing contract.  A parse    *)
(* result is [tag, pos, frame, min]: tag "Ok" with the frame and the       *)
(* cursor position pos after it, "Incomplete" with the byte count min      *)
(* needed before a new attempt, "IncompleteData" for a Data header whose   *)
(* payload is not all buffered, or the kind of a structural failure.       *)
(***************************************************************************)
ParseResult(tag, pos, frame, min) ==
    [tag |-> tag, pos |-> pos, frame |-> frame, min |-> min]

RECURSIVE DecodeEntries(_)
\* SettingsFrame::decode: [tag, entries]; an entry cut short is malformed,
\* an id reserved by HTTP/2 (2..5) is a settings error.
DecodeEntries(bytes) ==
    IF bytes = <<>> THEN [tag |-> "Ok", entries |-> <<>>]
    ELSE LET id == GetVar(bytes)
             val == GetVar(Advance(bytes, id.len))
         IN IF ~id.ok \/ ~val.ok THEN [tag |-> "Malformed", entries |-> <<>>]
            ELSE IF id.val \in 2..5 THEN [tag |-> "Settings", entries |-> <<>>]
            ELSE LET rest == DecodeEntries(Advance(bytes, id.len + val.len))
                 IN IF rest.tag # "Ok" THEN rest
                    ELSE [tag |-> "Ok",
                          entries |-> << <<id.val, val.val>> >> \o rest.entries]

\* The payload of a frame of type ty, all buffered: Ok or a structural failure.
DecodePayload(ty, payload, pos) ==
    CASE ty = TypeData -> ParseResult("Ok", pos, DataOf(payload), 0)
      [] ty = TypeHeaders ->
            ParseResult("Ok", pos, [kind |-> "Headers", payload |-> payload], 0)
      [] ty = TypeSettings ->
            LET es == DecodeEntries(payload)
            IN IF es.tag = "Ok"
               THEN ParseResult("Ok", pos,
                                [kind |-> "Settings", payload |-> es.entries], 0)
               ELSE ParseResult(es.tag, pos, NoFrame, 0)
      [] ty = TypeGoaway ->
            LET id == GetVar(payload)
            IN IF id.ok /\ id.len = Len(payload)
               THEN ParseResult("Ok", pos,
                                [kind |-> "Goaway", payload |-> <<id.val>>], 0)
               ELSE ParseResult("Malformed", pos, NoFrame, 0)
      [] ty = TypeH2Priority -> ParseResult("UnsupportedFrame", pos, NoFrame, 0)
      [] OTHER -> ParseResult("UnknownFrame", pos, NoFrame, 0)

\* HttpFrame::decode on a cursor over buf.
HttpFrameDecode(buf) ==
    LET ty == GetVar(buf)
        len == GetVar(Advance(buf, ty.len))
        hdr == ty.len + len.len
    IN IF ~ty.ok \/ ~len.ok
       THEN ParseResult("Incomplete", 0, NoFrame, Len(buf) + 1)
       ELSE IF Len(buf) - hdr < len.val
       THEN IF ty.val = TypeData
            THEN ParseResult("IncompleteData", hdr, NoFrame, 0)
            ELSE ParseResult("Incomplete", hdr, NoFrame, hdr + len.val)
       ELSE DecodePayload(ty.val, SubSeq(buf, hdr + 1, hdr + len.val),
                          hdr + len.val)

\* PartialData::decode on a cursor over buf: reads the Data header and takes
\* the payload bytes buffered behind it as the first chunk:
\* [tag, pos, remaining, payload].
PartialDataDecode(buf) ==
    LET ty == GetVar(buf)
        len == GetVar(Advance(buf, ty.len))
        hdr == ty.len + len.len
        payload == Advance(buf, hdr)
    IN IF ~ty.ok \/ ~len.ok
       THEN [tag |-> "UnexpectedEnd", pos |-> 0, remaining |-> 0, payload |-> <<>>]
       ELSE [tag |-> "Ok", pos |-> Len(buf),
             remaining |-> len.val - Len(payload), payload |-> payload]

\* PartialData::decode_data: the buffered bytes, up to the count still owed:
\* [pos, remaining, payload].
DecodeData(remaining, buf) ==
    LET n == Min(remaining, Len(buf))
    IN [pos |-> n, remaining |-> remaining - n, payload |-> Take(buf, n)]

(***************************************************************************)
(* FrameDecoder::decode.  A call on a decoder (partial, expected) and a    *)
(* buffer src gives [res, frame, err, src, partial, expected, parse]: res  *)
(* is "none" for Ok(None), "frame" for Ok(Some(frame)), "err" for          *)
(* Err(err); src, partial and expected are the buffer and the decoder      *)
(* after the call; parse is the outcome of HttpFrame::decode when it was   *)
(* called, "" when it was not.                                             *)
(***************************************************************************)
DecodeResult(res, frame, err, src, partial, expected) ==
    [res |-> res, frame |-> frame, err |-> err, src |-> src,
     partial |-> partial, expected |-> expected, parse |-> ""]

\* Mutant of OnEmpty: a call on an empty buffer forgets the decoder's state.
OnEmpty_Forget(partial, expected, src) ==
    DecodeResult("none", NoFrame, "", src, None, None)

\* if src.is_empty() { return Ok(None) }
OnEmpty(partial, expected, src) ==
    DecodeResult("none", NoFrame, "", src, partial, expected)

\* Mutant of OnPartial: the partial state is never cleared.
OnPartial_KeepLive(partial, expected, src) ==
    LET d == DecodeData(partial[1], src)
    IN DecodeResult("frame", DataOf(d.payload), "", Advance(src, d.pos),
                    Some(d.remaining), expected)

\* if let Some(ref mut partial) = self.partial { ... return Ok(Some(frame)) }
OnPartial(partial, expected, src) ==
    LET d == DecodeData(partial[1], src)
    IN DecodeResult("frame", DataOf(d.payload), "", Advance(src, d.pos),
                    IF d.remaining = 0 THEN None ELSE Some(d.remaining),
                    expected)

\* Mutant of ExpectedBlocks: src.len() <= min.
ExpectedBlocks_OffByOne(expected, src) ==
    expected # None /\ Len(src) <= expected[1]

\* if let Some(min) = self.expected { if src.len() < min { return Ok(None) } }
ExpectedBlocks(expected, src) ==
    expected # None /\ Len(src) < expected[1]

\* Mutant of OnIncompleteData: only the header is removed from the buffer.
OnIncompleteData_HeaderOnly(partial, expected, src) ==
    LET p == PartialDataDecode(src)
    IN IF p.tag # "Ok"
       THEN DecodeResult("err", NoFrame, p.tag, src, partial, expected)
       ELSE IF Len(p.payload) > 0
       THEN DecodeResult("frame", DataOf(p.payload), "",
                         Advance(src, p.pos - Len(p.payload)),
                         Some(p.remaining), None)
       ELSE DecodeResult("none", NoFrame, "", Advance(src, p.pos),
                         Some(p.remaining), None)

\* Mutant of OnIncompleteData: the first chunk is returned even when empty.
OnIncompleteData_AlwaysEmit(partial, expected, src) ==
    LET p == PartialDataDecode(src)
    IN IF p.tag # "Ok"
       THEN DecodeResult("err", NoFrame, p.tag, src, partial, expected)
       ELSE DecodeResult("frame", DataOf(p.payload), "", Advance(src, p.pos),
                         Some(p.remaining), None)

\* Mutant of OnIncompleteData: the expected minimum is left as it was.
OnIncompleteData_KeepExpected(partial, expected, src) ==
    LET p == PartialDataDecode(src)
    IN IF p.tag # "Ok"
       THEN DecodeResult("err", NoFrame, p.tag, src, partial, expected)
       ELSE IF Len(p.payload) > 0
       THEN DecodeResult("frame", DataOf(p.payload), "", Advance(src, p.pos),
                         Some(p.remaining), expected)
       ELSE DecodeResult("none", NoFrame, "", Advance(src, p.pos),
                         Some(p.remaining), expected)

\* Err(frame::Error::IncompleteData) => { ... }
OnIncompleteData(partial, expected, src) ==
    LET p == PartialDataDecode(src)
    IN IF p.tag # "Ok"
       THEN DecodeResult("err", NoFrame, p.tag, src, partial, expected)
       ELSE IF Len(p.payload) > 0
       THEN DecodeResult("frame", DataOf(p.payload), "", Advance(src, p.pos),
                         Some(p.remaining), None)
       ELSE DecodeResult("none", NoFrame, "", Advance(src, p.pos),
                         Some(p.remaining), None)

\* Mutant of OnIncomplete: the bytes parsed so far are dropped.
OnIncomplete_Consume(partial, src, min) ==
    DecodeResult("none", NoFrame, "", <<>>, partial, Some(min))

\* Err(frame::Error::Incomplete(min)) => { self.expected = Some(min); Ok(None) }
OnIncomplete(partial, src, min) ==
    DecodeResult("none", NoFrame, "", src, partial, Some(min))

\* Mutant of OnError: the expected minimum is cleared, as on success.
OnError_ClearExpected(partial, expected, src, e) ==
    DecodeResult("err", NoFrame, e, src, partial, None)

\* Err(e) => Err(e.into())
OnError(partial, expected, src, e) ==
    DecodeResult("err", NoFrame, e, src, partial, expected)

\* Mutant of OnFrame: the frame's bytes stay in the buffer.
OnFrame_NoAdvance(partial, src, pos, frame) ==
    DecodeResult("frame", frame, "", src, partial, None)

\* Ok(frame) => { src.advance(pos); self.expected = None; Ok(Some(frame)) }
OnFrame(partial, src, pos, frame) ==
    DecodeResult("frame", frame, "", Advance(src, pos), partial, None)

\* Mutant of OnParsed: no arm for Incomplete, which falls to Err(e).
OnParsed_NoIncompleteArm(partial, expected, src, parsed) ==
    CASE parsed.tag = "IncompleteData" -> OnIncompleteData(partial, expected, src)
      [] parsed.tag = "Ok" -> OnFrame(partial, src, parsed.pos, parsed.frame)
      [] OTHER -> OnError(partial, expected, src, parsed.tag)

\* match decoded { ... }
OnParsed(partial, expected, src, parsed) ==
    CASE parsed.tag = "IncompleteData" -> OnIncompleteData(partial, expected, src)
      [] parsed.tag = "Incomplete" -> OnIncomplete(partial, src, parsed.min)
      [] parsed.tag = "Ok" -> OnFrame(partial, src, parsed.pos, parsed.frame)
      [] OTHER -> OnError(partial, expected, src, parsed.tag)

\* fn decode(&mut self, src: &mut BytesMut)
Decode(partial, expected, src) ==
    IF src = <<>> THEN OnEmpty(partial, expected, src)
    ELSE IF partial # None THEN OnPartial(partial, expected, src)
    ELSE IF ExpectedBlocks(expected, src)
    THEN DecodeResult("none", NoFrame, "", src, partial, expected)
    ELSE LET parsed == HttpFrameDecode(src)
         IN [OnParsed(partial, expected, src, parsed) EXCEPT !.parse = parsed.tag]

(***************************************************************************)
(* WriteFrame.  The writer is the record w:                                *)
(*   phase, h, start, len, p   WriteFrameState: "Header" with the header   *)
(*                     buffer h, the cursor start and the header length    *)
(*                     len, "Payload" with the payload p still to write,   *)
(*                     "Finished"; start and len keep their last values    *)
(*                     once the Header phase is left                       *)
(*   payload           the field payload: Option<Bytes>                    *)
(*   sent, reset       the SendStream: the bytes it has accepted and the   *)
(*                     error code of its abrupt close, if any              *)
(*   ret               what the poll in progress or returned last gave:    *)
(*                     "none" before any poll, "more" while the loop of    *)
(*                     poll goes on, "pending", "err", "ready", "panic"    *)
(*   returned          how many times poll returned the stream handle      *)
(*   gone              reset(self) has consumed the writer                 *)
(*   panic             the panic raised, "" if none                        *)
(* and, recording the run: frame, the frame being written; pre, the       *)
(* phase, the byte count accepted, ret, start and p before the latest      *)
(* step; outcome,                                                          *)
(* offered, accepted, the latest write attempt: what the stream answered,  *)
(* the size of the slice and how much of it the stream took; resetErr and  *)
(* code, the error whose code reset was given and that code.               *)
(***************************************************************************)
\* Shortest payload whose length takes a two-byte varint in the header.
LongPayload == 64

Zeros(n) == [i \in 1..n |-> 0]

NoError == [origin |-> "", kind |-> ""]

WriterOff ==
    [phase |-> "Off", h |-> <<>>, start |-> 0, len |-> 0, p |-> <<>>,
     payload |-> None, sent |-> <<>>, reset |-> None, ret |-> "none",
     returned |-> 0, gone |-> FALSE, panic |-> "", frame |-> NoFrame,
     pre |-> [phase |-> "Off", sent |-> 0, ret |-> "none", start |-> 0,
              p |-> <<>>],
     outcome |-> "", offered |-> 0, accepted |-> 0, resetErr |-> NoError,
     code |-> ""]

\* WriteFrame::new: the header encoded once into a buffer of two
\* maximum-width varints, the payload kept aside.
WriteFrameNew(f) ==
    LET buf == Zeros(VarIntMaxSize * 2)
        hdr == EncodeHeader(f)
        remaining == Len(buf) - Len(hdr)
    IN [WriterOff EXCEPT
          !.phase = "Header",
          !.h = hdr \o SubSeq(buf, Len(hdr) + 1, Len(buf)),
          !.start = 0,
          !.len = Len(buf) - remaining,
          !.payload = Some(PayloadBytes(f)),
          !.frame = f,
          !.pre = [phase |-> "Header", sent |-> 0, ret |-> "none",
                   start |-> 0, p |-> <<>>]]

\* What one write attempt on a slice of n bytes may give: no capacity, a
\* failure, or a number of bytes accepted, at most n.
WriteOk(n) == [kind |-> "Ok", n |-> n]

WritePending == [kind |-> "Pending", n |-> 0]

WriteErr == [kind |-> "Err", n |-> 0]

Outcomes(n) == {WritePending, WriteErr} \cup {WriteOk(k) : k \in 0..n}

Panicked(wr, why) == [wr EXCEPT !.panic = why, !.ret = "panic"]

\* Mutant of PollHeader: a failed write is taken for a write of no byte.
PollHeader_RetryOnError(wr, o) ==
    IF o.kind = "Pending" THEN [wr EXCEPT !.ret = "pending"]
    ELSE LET slice == SubSeq(wr.h, wr.start + 1, wr.len)
             start == wr.start + o.n
             wrote == [wr EXCEPT !.start = start,
                                 !.sent = @ \o Take(slice, o.n),
                                 !.ret = "more"]
         IN IF start < wr.len THEN wrote
            ELSE [wrote EXCEPT !.phase = "Payload",
                               !.p = wr.payload[1],
                               !.payload = None]

\* Mutant of PollHeader: the payload is not taken out of the writer.
PollHeader_KeepPayload(wr, o) ==
    IF o.kind = "Pending" THEN [wr EXCEPT !.ret = "pending"]
    ELSE IF o.kind = "Err" THEN [wr EXCEPT !.ret = "err"]
    ELSE LET slice == SubSeq(wr.h, wr.start + 1, wr.len)
             start == wr.start + o.n
             wrote == [wr EXCEPT !.start = start,
                                 !.sent = @ \o Take(slice, o.n),
                                 !.ret = "more"]
         IN IF start < wr.len THEN wrote
            ELSE [wrote EXCEPT !.phase = "Payload", !.p = wr.payload[1]]

\* Mutant of PollHeader: the cursor is not advanced after a short write.
PollHeader_NoAdvance(wr, o) ==
    IF o.kind = "Pending" THEN [wr EXCEPT !.ret = "pending"]
    ELSE IF o.kind = "Err" THEN [wr EXCEPT !.ret = "err"]
    ELSE LET slice == SubSeq(wr.h, wr.start + 1, wr.len)
             start == wr.start + o.n
             wrote == [wr EXCEPT !.sent = @ \o Take(slice, o.n),
                                 !.ret = "more"]
         IN IF start < wr.len THEN wrote
            ELSE [wrote EXCEPT !.start = start,
                               !.phase = "Payload",
                               !.p = wr.payload[1],
                               !.payload = None]

\* WriteFrameState::Header(ref mut send, ref h, ref mut start, len) => { ... }
PollHeader(wr, o) ==
    IF wr.start > wr.len \/ wr.len > Len(wr.h)
    THEN Panicked(wr, "slice index out of range")
    ELSE IF o.kind = "Pending" THEN [wr EXCEPT !.ret = "pending"]
    ELSE IF o.kind = "Err" THEN [wr EXCEPT !.ret = "err"]
    ELSE LET slice == SubSeq(wr.h, wr.start + 1, wr.len)
             start == wr.start + o.n
             wrote == [wr EXCEPT !.start = start,
                                 !.sent = @ \o Take(slice, o.n),
                                 !.ret = "more"]
         IN IF start < wr.len THEN wrote
            ELSE IF wr.payload = None
            THEN Panicked(wrote, "unwrap on None")
            ELSE [wrote EXCEPT !.phase = "Payload",
                               !.p = wr.payload[1],
                               !.payload = None]

\* Mutant of PollPayload: Finished is entered after the first write.
PollPayload_FinishEarly(wr, o) ==
    IF o.kind = "Pending" THEN [wr EXCEPT !.ret = "pending"]
    ELSE IF o.kind = "Err" THEN [wr EXCEPT !.ret = "err"]
    ELSE [wr EXCEPT !.p = <<>>,
                    !.sent = @ \o Take(wr.p, o.n),
                    !.phase = "Finished",
                    !.ret = "ready",
                    !.returned = @ + 1]

\* Mutant of PollPayload: a write that accepted no byte is always retried.
PollPayload_RetryOnZero(wr, o) ==
    IF o.kind = "Pending" THEN [wr EXCEPT !.ret = "pending"]
    ELSE IF o.kind = "Err" THEN [wr EXCEPT !.ret = "err"]
    ELSE LET wrote == [wr EXCEPT !.p = Advance(wr.p, o.n),
                                 !.sent = @ \o Take(wr.p, o.n),
                                 !.ret = "more"]
         IN IF o.n = 0 \/ wrote.p # <<>> THEN wrote
            ELSE [wrote EXCEPT !.phase = "Finished",
                               !.ret = "ready",
                               !.returned = @ + 1]

\* WriteFrameState::Payload(ref mut send, ref mut p) => { ... }
PollPayload(wr, o) ==
    IF o.kind = "Pending" THEN [wr EXCEPT !.ret = "pending"]
    ELSE IF o.kind = "Err" THEN [wr EXCEPT !.ret = "err"]
    ELSE IF o.n > Len(wr.p) THEN Panicked(wr, "cannot advance past remaining")
    ELSE LET wrote == [wr EXCEPT !.p = Advance(wr.p, o.n),
                                 !.sent = @ \o Take(wr.p, o.n),
                                 !.ret = "more"]
         IN IF wrote.p # <<>> THEN wrote
            ELSE [wrote EXCEPT !.phase = "Finished",
                               !.ret = "ready",
                               !.returned = @ + 1]

\* One turn of the loop of WriteFrame::poll: the arm of the current state,
\* with the outcome o of its write attempt.
Poll(wr, o) ==
    CASE wr.phase = "Finished" -> Panicked(wr, "polled after finished")
      [] wr.phase = "Header" -> PollHeader(wr, o)
      [] OTHER -> PollPayload(wr, o)

\* The slice the next write attempt offers to the stream.
Offered(wr) ==
    IF wr.phase = "Header" THEN SubSeq(wr.h, wr.start + 1, wr.len)
    ELSE IF wr.phase = "Payload" THEN wr.p
    ELSE <<>>

\* Mutant of ResetStream: the stream is closed in the Header phase only.
ResetStream_HeaderOnly(wr, code) ==
    IF wr.phase = "Header"
    THEN [wr EXCEPT !.reset = Some(code), !.gone = TRUE]
    ELSE [wr EXCEPT !.gone = TRUE]

\* WriteFrame::reset(self, err_code)
ResetStream(wr, code) ==
    IF wr.phase \in {"Header", "Payload"}
    THEN [wr EXCEPT !.reset = Some(code), !.gone = TRUE]
    ELSE [wr EXCEPT !.gone = TRUE]

(***************************************************************************)
(* Errors and their codes.  An error is Io(kind) or Proto(kind).           *)
(***************************************************************************)
ProtoKinds ==
    {"Malformed", "UnsupportedFrame", "UnknownFrame", "UnexpectedEnd",
     "InvalidFrameValue", "Incomplete", "IncompleteData", "Settings"}

IoKinds == {"ConnectionReset", "UnexpectedEof"}

Errors ==
    {[origin |-> "Io", kind |-> k] : k \in IoKinds}
      \cup {[origin |-> "Proto", kind |-> k] : k \in ProtoKinds}

\* Mutant of ErrorCode: no arm for UnsupportedFrame.
ErrorCode_NoUnsupportedArm(e) ==
    CASE e.origin = "Io" -> "GENERAL_PROTOCOL_ERROR"
      [] e.origin = "Proto" /\ e.kind = "Settings" -> "SETTINGS_ERROR"
      [] OTHER -> "FRAME_ERROR"

\* Error::code
ErrorCode(e) ==
    CASE e.origin = "Io" -> "GENERAL_PROTOCOL_ERROR"
      [] e.origin = "Proto" /\ e.kind = "Settings" -> "SETTINGS_ERROR"
      [] e.origin = "Proto" /\ e.kind = "UnsupportedFrame" -> "FRAME_UNEXPECTED"
      [] e.origin = "Proto" -> "FRAME_ERROR"

(***************************************************************************)
(* The state machine.  frames is the sequence of frames the peer encoded,  *)
(* wire its bytes; the transport has delivered the first `delivered` of    *)
(* them into the buffer src (FramedRead's BytesMut), from which decode     *)
(* removes what it consumes.  partial and expected are the decoder's       *)
(* fields.  The other variables record the run: out is every frame decode  *)
(* has returned, last the latest decode call (its result and the buffer    *)
(* and decoder it was called on) or NoCall when bytes arrived since, acc   *)
(* the chunks returned for the Data frame whose header was consumed last,  *)
(* nDeliv the number of deliveries (2 standing for two or more), bytewise  *)
(* whether the run so far is one byte delivered, then one decode call,     *)
(* over and over.  plain is a second decoder fed the same bytes and called *)
(* at the same moments, which never consults the expected minimum.  w is   *)
(* the frame writer, WriterOff in the runs of the decoder.                 *)
(***************************************************************************)
VARIABLES frames, wire, delivered, src, partial, expected,
          out, last, acc, nDeliv, bytewise, plain, w

vars == <<frames, wire, delivered, src, partial, expected,
          out, last, acc, nDeliv, bytewise, plain, w>>

\* The wire streams of the model: up to MaxFrames frames, all valid but
\* possibly the last.
FrameSeqs(n) == UNION {[1..k -> ValidFrames] : k \in 0..n}

Wires ==
    FrameSeqs(MaxFrames)
      \cup {Append(fs, b) : fs \in FrameSeqs(MaxFrames - 1), b \in BadFrames}

\* again: the call was made right after a call that returned Ok(None), no
\* byte having been delivered in between.
NoCall ==
    [res |-> "init", frame |-> NoFrame, err |-> "", parse |-> "",
     src |-> <<>>, partial |-> None, expected |-> None, again |-> FALSE]

\* The decoder that always attempts the parse: decode with no minimum cached.
DecodePlain(p, s) == Decode(p, None, s)

NoPlain == [src |-> <<>>, partial |-> None, res |-> "init", frame |-> NoFrame]

NoAcc == [state |-> "none", idx |-> 0, got |-> <<>>, chunks |-> 0]

\* Offset in the wire at which frame i starts (i = Len(fs) + 1: the end).
StartOf(fs, i) == Len(EncodeAll(Take(fs, i - 1)))

\* The frame that starts at wire offset pos, 0 if none does.
FrameIndexAt(fs, pos) ==
    IF \E i \in 1..Len(fs) : StartOf(fs, i) = pos
    THEN CHOOSE i \in 1..Len(fs) : StartOf(fs, i) = pos
    ELSE 0

\* Bytes decode has removed from the buffer so far.
Consumed == delivered - Len(src)

\* FrameDecoder::default()
Init ==
    /\ frames \in Wires
    /\ wire = EncodeAll(frames)
    /\ delivered = 0
    /\ src = <<>>
    /\ partial = None
    /\ expected = None
    /\ out = <<>>
    /\ last = NoCall
    /\ acc = NoAcc
    /\ nDeliv = 0
    /\ bytewise = TRUE
    /\ plain = NoPlain
    /\ w = WriterOff

\* The transport appends the next k bytes of the stream to the buffer.
Deliver(k) ==
    /\ delivered + k <= Len(wire)
    /\ src' = src \o SubSeq(wire, delivered + 1, delivered + k)
    /\ delivered' = delivered + k
    /\ last' = NoCall
    /\ nDeliv' = Min(nDeliv + 1, 2)
    /\ bytewise' = (bytewise /\ k = 1 /\ (nDeliv = 0 \/ last.res # "init"))
    /\ plain' = [plain EXCEPT !.src = @ \o SubSeq(wire, delivered + 1, delivered + k),
                               !.res = "init", !.frame = NoFrame]
    /\ UNCHANGED <<frames, wire, partial, expected, out, acc, w>>

\* The record of the chunks of the Data frame in progress, after a call
\* with result r made at wire offset pos.
AccAfter(r, pos) ==
    IF partial = None /\ r.partial # None
    THEN [state |-> "live", idx |-> FrameIndexAt(frames, pos),
          got |-> IF r.res = "frame" THEN r.frame.payload ELSE <<>>,
          chunks |-> IF r.res = "frame" THEN 1 ELSE 0]
    ELSE IF partial # None /\ r.res = "frame"
    THEN [acc EXCEPT !.state = IF r.partial = None THEN "cleared" ELSE "live",
                     !.got = @ \o r.frame.payload,
                     !.chunks = @ + 1]
    ELSE acc

\* The codec calls decode on the buffer.
DecodeCall ==
    LET r == Decode(partial, expected, src)
    IN /\ src' = r.src
       /\ partial' = r.partial
       /\ expected' = r.expected
       /\ out' = IF r.res = "frame" THEN Append(out, r.frame) ELSE out
       /\ last' = [res |-> r.res, frame |-> r.frame, err |-> r.err,
                   parse |-> r.parse, src |-> src, partial |-> partial,
                   expected |-> expected, again |-> (last.res = "none")]
       /\ acc' = AccAfter(r, Consumed)
       /\ bytewise' = (bytewise /\ nDeliv > 0 /\ last.res = "init")
       /\ plain' = LET q == DecodePlain(plain.partial, plain.src)
                   IN [src |-> q.src, partial |-> q.partial,
                       res |-> q.res, frame |-> q.frame]
       /\ UNCHANGED <<frames, wire, delivered, nDeliv, w>>

Next ==
    \/ \E k \in 1..(Len(wire) - delivered) : Deliver(k)
    \/ DecodeCall

Spec == Init /\ [][Next]_vars

(***************************************************************************)
(* The runs of the writer: WriteFrame::new on a frame, then the turns of   *)
(* the loop of poll, each with the answer of the stream to its write       *)
(* attempt, and reset.  A poll call starts with the turn taken when ret is *)
(* not "more" and returns with the turn that sets ret to anything else.    *)
(***************************************************************************)
dvars == <<frames, wire, delivered, src, partial, expected,
           out, last, acc, nDeliv, bytewise, plain>>

DecoderIdle ==
    /\ frames = <<>>
    /\ wire = <<>>
    /\ delivered = 0
    /\ src = <<>>
    /\ partial = None
    /\ expected = None
    /\ out = <<>>
    /\ last = NoCall
    /\ acc = NoAcc
    /\ nDeliv = 0
    /\ bytewise = TRUE
    /\ plain = NoPlain

\* The frames handed to the writer: those of the decoder's streams and one
\* whose header takes three bytes.
WriterFrames ==
    ValidFrames \cup {[kind |-> "Headers", payload |-> Pattern(LongPayload)]}

InitW ==
    /\ DecoderIdle
    /\ \E f \in WriterFrames : w = WriteFrameNew(f)

\* The writer after one turn of poll in which the stream answers o.
Turn(o) ==
    [Poll(w, o) EXCEPT
       !.pre = [phase |-> w.phase, sent |-> Len(w.sent), ret |-> w.ret,
                start |-> w.start, p |-> w.p],
       !.outcome = o.kind,
       !.offered = Len(Offered(w)),
       !.accepted = o.n]

CanPoll ==
    /\ w.phase \in {"Header", "Payload"}
    /\ ~w.gone
    /\ w.panic = ""

\* The stream accepts n bytes of the slice: at least one, or none of an
\* empty slice.
PollAccept(n) ==
    /\ CanPoll
    /\ n <= Len(Offered(w))
    /\ n >= 1 \/ Offered(w) = <<>>
    /\ w' = Turn(WriteOk(n))
    /\ UNCHANGED dvars

\* The stream reports that it accepted no byte of a slice that holds some.
PollStall ==
    /\ CanPoll
    /\ Offered(w) # <<>>
    /\ w' = Turn(WriteOk(0))
    /\ UNCHANGED dvars

\* The stream has no capacity: ready! returns Poll::Pending.
PollPending ==
    /\ CanPoll
    /\ w' = Turn(WritePending)
    /\ UNCHANGED dvars

\* The write fails: ? returns the error.
PollFail ==
    /\ CanPoll
    /\ w' = Turn(WriteErr)
    /\ UNCHANGED dvars

\* poll called on a writer that has returned the stream handle.
PollAgain ==
    /\ w.phase = "Finished"
    /\ ~w.gone
    /\ w.panic = ""
    /\ w' = [Turn(WritePending) EXCEPT !.outcome = ""]
    /\ UNCHANGED dvars

\* The caller gives up the write, with the code of the error e it met.
Reset(e) ==
    /\ w.phase # "Off"
    /\ ~w.gone
    /\ w.panic = ""
    /\ w.ret # "more"
    /\ w' = [ResetStream(w, ErrorCode(e)) EXCEPT
               !.pre = [phase |-> w.phase, sent |-> Len(w.sent), ret |-> w.ret,
                start |-> w.start, p |-> w.p],
               !.resetErr = e,
               !.code = ErrorCode(e)]
    /\ UNCHANGED dvars

NextW ==
    \/ \E n \in 0..LongPayload : PollAccept(n)
    \/ PollStall
    \/ PollPending
    \/ PollFail
    \/ PollAgain
    \/ \E e \in Errors : Reset(e)

SpecW == InitW /\ [][NextW]_vars

\* The writer under a stream that, asked again and again, ends up accepting
\* bytes.
SpecWFair == SpecW /\ WF_vars(\E n \in 0..LongPayload : PollAccept(n))

\* The runs of the decoder and the runs of the writer.
NextRW ==
    \/ w.phase = "Off" /\ Next
    \/ w.phase # "Off" /\ NextW

SpecRW == (Init \/ InitW) /\ [][NextRW]_vars

(***************************************************************************)
(* Vocabulary of the properties.                                           *)
(***************************************************************************)
AllValid == \A i \in 1..Len(frames) : frames[i] \in ValidFrames

AllData(fs) == \A i \in 1..Len(fs) : fs[i].kind = "Data"

RECURSIVE ConcatPayloads(_)
ConcatPayloads(fs) ==
    IF fs = <<>> THEN <<>> ELSE fs[1].payload \o ConcatPayloads(Tail(fs))

\* Wire offset of the first payload byte of frame i.
PayloadStart(i) == StartOf(frames, i) + Len(EncodeHeader(frames[i]))

\* The length the header of frame i declares, read off the wire.
DeclaredLen(i) ==
    LET ty == GetVar(Advance(wire, StartOf(frames, i)))
    IN GetVar(Advance(wire, StartOf(frames, i) + ty.len)).val

\* Wire offset of the buffer the latest decode call was made on.
LastPos == delivered - Len(last.src)

RECURSIVE Refines(_, _)
\* o is fs with each Data frame possibly split into consecutive Data frames
\* whose payloads concatenate to it.
Refines(o, fs) ==
    IF fs = <<>> THEN o = <<>>
    ELSE IF fs[1].kind # "Data"
    THEN o # <<>> /\ o[1] = fs[1] /\ Refines(Tail(o), Tail(fs))
    ELSE \E k \in 1..Len(o) :
            /\ AllData(Take(o, k))
            /\ ConcatPayloads(Take(o, k)) = fs[1].payload
            /\ Refines(Advance(o, k), Tail(fs))

RECURSIVE RunDecode(_, _, _, _)
\* decode called again and again on one buffer until it returns no frame.
RunDecode(p, e, s, o) ==
    LET r == Decode(p, e, s)
    IN IF r.res = "frame" /\ r.src # s
       THEN RunDecode(r.partial, r.expected, r.src, Append(o, r.frame))
       ELSE IF r.res = "frame" THEN Append(o, r.frame) ELSE o

\* The frames a fresh decoder returns for the bytes w delivered at once.
SingleDelivery(bytes) == RunDecode(None, None, bytes, <<>>)

(***************************************************************************)
(* C1  Round trip.  The encoding of one supported frame f, delivered in    *)
(* any chunks to a fresh decoder and decoded until decode returns no       *)
(* frame with every byte delivered, gives back f: exactly the frame f      *)
(* when f is not a Data frame, Data frames whose payloads concatenate to   *)
(* the payload of f when it is; and the buffer is drained.                 *)
(***************************************************************************)
C1_Drained ==
    /\ Len(frames) = 1
    /\ frames[1] \in ValidFrames
    /\ delivered = Len(wire)
    /\ last.res = "none"

C1_RoundTrip ==
    C1_Drained =>
        /\ src = <<>>
        /\ IF frames[1].kind = "Data"
           THEN AllData(out) /\ ConcatPayloads(out) = frames[1].payload
           ELSE out = <<frames[1]>>

\* A Data frame delivered in several chunks that came back as two chunks.
C1_Witness ==
    /\ C1_Drained
    /\ frames[1].kind = "Data"
    /\ Len(out) = 2
    /\ nDeliv = 2

(***************************************************************************)
(* C2  Chunk-size independence.  For a stream of valid frames, the run     *)
(* that delivers one byte per decode call returns the frames of the run    *)
(* that delivers everything at once and decodes until no frame is          *)
(* returned, a Data frame of the latter possibly appearing as several      *)
(* consecutive Data frames with the same bytes in the same order.          *)
(***************************************************************************)
C2_ChunkIndependence ==
    /\ (AllValid /\ bytewise /\ delivered = Len(wire) /\ last.res # "init")
          => Refines(out, SingleDelivery(wire))
    /\ (AllValid /\ nDeliv = 1 /\ delivered = Len(wire) /\ last.res = "none")
          => out = SingleDelivery(wire)

C2_Witness ==
    /\ AllValid
    /\ Len(frames) = 2
    /\ bytewise
    /\ delivered = Len(wire)
    /\ last.res # "init"
    /\ Len(out) > Len(SingleDelivery(wire))

(***************************************************************************)
(* C3  Partial Data chunking neither drops nor duplicates bytes.  From the *)
(* call that consumes the header of a Data frame with declared length L    *)
(* and payload P to the call that clears the partial state, the chunks     *)
(* returned concatenate to a prefix of P whose length and the count still  *)
(* owed add up to L, and to exactly P, of length L, once it is cleared.    *)
(***************************************************************************)
C3_ChunksArePayload ==
    acc.state # "none" =>
        /\ acc.idx # 0
        /\ frames[acc.idx].kind = "Data"
        /\ acc.got = Take(frames[acc.idx].payload, Len(acc.got))
        /\ acc.state = "live" =>
              /\ partial # None
              /\ Len(acc.got) + partial[1] = DeclaredLen(acc.idx)
        /\ acc.state = "cleared" =>
              /\ acc.got = frames[acc.idx].payload
              /\ Len(acc.got) = DeclaredLen(acc.idx)

C3_Witness ==
    /\ acc.state = "cleared"
    /\ acc.chunks = 2
    /\ Len(acc.got) = 2

(***************************************************************************)
(* C4  Truncation.  decode called on a fresh decoder whose buffer is a     *)
(* valid single-frame encoding with k > 0 trailing bytes removed.          *)
(***************************************************************************)
C4_TruncatedCall ==
    /\ Len(frames) >= 1
    /\ frames[1] \in ValidFrames
    /\ delivered < Len(Encode(frames[1]))
    /\ last.res # "init"
    /\ last.partial = None
    /\ last.expected = None
    /\ last.src = Take(wire, delivered)

\* C4 as claimed: the call returns Ok(None) for every kind of frame, Data
\* included.
C4_TruncationIsNone == C4_TruncatedCall => last.res = "none"

\* C4 as amended: the call returns Ok(None), except for a Data frame of
\* which at least one payload byte is left in the buffer, for which it
\* returns a Data chunk holding exactly the payload bytes buffered; it never
\* returns an error.
C4_TruncationAmended ==
    C4_TruncatedCall =>
        LET hdr == Len(EncodeHeader(frames[1]))
        IN IF frames[1].kind = "Data" /\ delivered > hdr
           THEN /\ last.res = "frame"
                /\ last.frame = DataOf(SubSeq(wire, hdr + 1, delivered))
           ELSE last.res = "none"

C4_Witness ==
    /\ C4_TruncatedCall
    /\ frames[1].kind = "Data"
    /\ delivered = Len(EncodeHeader(frames[1])) + 1
    /\ last.res = "frame"

(***************************************************************************)
(* C5  Complete frames, then a truncated one.  When the one delivery made  *)
(* so far holds the encodings of the valid frames f1..fn followed by a     *)
(* proper prefix of a further valid frame that is not a Data frame, the    *)
(* decode calls return f1, ..., fn in that order, each consuming exactly   *)
(* the bytes of its frame, then Ok(None); the truncated frame is never     *)
(* returned and no call fails.                                             *)
(***************************************************************************)
\* Frames whose encoding is all delivered.
NComplete == Cardinality({i \in 1..Len(frames) : StartOf(frames, i + 1) <= delivered})

C5_OneDeliveryThenTruncated ==
    /\ nDeliv = 1
    /\ NComplete < Len(frames)
    /\ \A i \in 1..(NComplete + 1) : frames[i] \in ValidFrames
    /\ frames[NComplete + 1].kind # "Data"

C6_LiveCall == last.res # "init" /\ last.partial # None /\ last.src # <<>>

C6_Ordering ==
    /\ C6_LiveCall =>
          LET n == Len(last.frame.payload)
              end == StartOf(frames, acc.idx + 1)
          IN /\ last.parse = ""
             /\ last.res = "frame"
             /\ last.frame.kind = "Data"
             /\ n > 0
             /\ acc.idx # 0
             /\ PayloadStart(acc.idx) <= LastPos
             /\ LastPos + n <= end
             /\ last.frame.payload = SubSeq(wire, LastPos + 1, LastPos + n)
             /\ src = Advance(last.src, n)
             /\ (partial = None) <=> (LastPos + n = end)
    /\ last.parse # "" => FrameIndexAt(frames, LastPos) # 0

\* The buffer held bytes of the next frame when the last chunk was taken.
C6_Witness ==
    /\ C6_LiveCall
    /\ partial = None
    /\ src # <<>>

(***************************************************************************)
(* C7  Ok(None) and the buffer.                                            *)
(***************************************************************************)
\* C7 as claimed: a call that returns Ok(None) leaves the buffer as it was.
C7_NoneLeavesBuffer == last.res = "none" => src = last.src

\* C7 as amended: a call that returns Ok(None) leaves the buffer as it was,
\* except when the buffer holds exactly the header of a Data frame that
\* declares a payload and none of its bytes: the call then removes the
\* header, leaving the buffer empty, and enters the partial state.
C7_NoneAmended ==
    last.res = "none" =>
        IF last.parse = "IncompleteData"
        THEN LET i == FrameIndexAt(frames, LastPos)
             IN /\ i # 0
                /\ frames[i].kind = "Data"
                /\ last.src = EncodeHeader(frames[i])
                /\ DeclaredLen(i) > 0
                /\ src = <<>>
                /\ last.partial = None
                /\ partial = Some(DeclaredLen(i))
        ELSE src = last.src /\ partial = last.partial

C7_Witness == last.res = "none" /\ last.parse = "IncompleteData"

(***************************************************************************)
(* C8  No Data frame with an empty payload is ever returned, whatever the  *)
(* decoder state and the buffer.                                           *)
(***************************************************************************)
C8_NoEmptyData ==
    (last.res = "frame" /\ last.frame.kind = "Data") => last.frame.payload # <<>>

(***************************************************************************)
(* C9  A call that fails for a structural reason (unsupported frame type,  *)
(* malformed field, invalid settings) consumes nothing and leaves the      *)
(* partial and expected state as they were.                                *)
(***************************************************************************)
Structural == {"UnsupportedFrame", "UnknownFrame", "Malformed", "Settings"}

C9_ErrorLeavesState ==
    last.res = "err" =>
        /\ last.err \in Structural
        /\ src = last.src
        /\ partial = last.partial
        /\ expected = last.expected

\* A failure met with an expected minimum cached by an earlier call.
C9_Witness == last.res = "err" /\ expected # None

(***************************************************************************)
(* C10  The parser's need-more-bytes outcomes never reach the caller as    *)
(* errors: Incomplete becomes Ok(None), IncompleteData Ok(None) or a Data  *)
(* chunk.                                                                  *)
(***************************************************************************)
C10_NeedMoreIsNotError ==
    /\ last.res = "err" => last.err \notin {"Incomplete", "IncompleteData"}
    /\ last.parse = "Incomplete" => last.res = "none"
    /\ last.parse = "IncompleteData" =>
          \/ last.res = "none"
          \/ last.res = "frame" /\ last.frame.kind = "Data"

C10_Witness ==
    /\ last.parse = "Incomplete"
    /\ last.res = "none"
    /\ Len(last.src) > 1

(***************************************************************************)
(* C11  Whatever the stream accepts of each write, the bytes it has        *)
(* accepted are at every moment the first bytes of the frame's header      *)
(* followed by its payload: header bytes only in the Header phase, the     *)
(* whole header once in the Payload phase, and the whole frame, each byte  *)
(* once, when the writer returns the stream handle.                        *)
(***************************************************************************)
IsPrefix(s, t) == Len(s) <= Len(t) /\ s = Take(t, Len(s))

C11_HeaderThenPayload ==
    w.phase # "Off" =>
        /\ IsPrefix(w.sent, EncodeHeader(w.frame) \o PayloadBytes(w.frame))
        /\ w.phase = "Header" =>
              /\ Len(w.sent) = w.start
              /\ Len(w.sent) <= Len(EncodeHeader(w.frame))
        /\ w.phase = "Payload" =>
              /\ Len(w.sent) >= Len(EncodeHeader(w.frame))
              /\ w.sent \o w.p = EncodeHeader(w.frame) \o PayloadBytes(w.frame)
        /\ w.ret = "ready" =>
              w.sent = EncodeHeader(w.frame) \o PayloadBytes(w.frame)

\* The long frame written to its end, its last write one byte wide.
C11_Witness ==
    /\ w.ret = "ready"
    /\ Len(PayloadBytes(w.frame)) = LongPayload
    /\ w.accepted = 1
    /\ w.offered = 1

(***************************************************************************)
(* C12  Under a stream that never fails and, asked again and again, ends   *)
(* up accepting bytes, a writer that is not reset reaches Finished and     *)
(* returns the stream handle, for every frame, the ones with an empty      *)
(* payload too; the handle is returned once, on entering Finished; and     *)
(* every poll call returns.                                                *)
(***************************************************************************)
C12_EventuallyFinished ==
    /\ [](w.returned <= 1 /\ (w.phase = "Finished" <=> w.returned = 1))
    /\ [](w.outcome # "Err" /\ ~w.gone)
          => <>(w.phase = "Finished" /\ w.returned = 1)
    /\ (w.ret = "more") ~> (w.ret # "more")

\* A frame with an empty payload written to its end after the stream had
\* no capacity for it.
C12_Witness ==
    /\ w.phase = "Finished"
    /\ w.ret = "ready"
    /\ PayloadBytes(w.frame) = <<>>
    /\ w.pre.ret = "pending"
    /\ w.offered = 0

(***************************************************************************)
(* C13  A write that fails, in the Header or the Payload phase, ends the   *)
(* poll call with the failure: the turn accepts no byte, keeps the phase,  *)
(* which is not Finished, and returns no stream handle.  The turns that    *)
(* try the same phase again are those whose write accepted fewer bytes     *)
(* than offered, never a failed one nor one without capacity.              *)
(***************************************************************************)
C13_FailureReturnsAtOnce ==
    /\ w.outcome = "Err" =>
          /\ w.ret = "err"
          /\ Len(w.sent) = w.pre.sent
          /\ w.phase = w.pre.phase
          /\ w.phase \in {"Header", "Payload"}
          /\ w.returned = 0
    /\ w.ret = "err" => w.outcome = "Err"
    /\ (w.outcome = "Ok" /\ w.accepted < w.offered) =>
          w.ret = "more" /\ w.phase = w.pre.phase
    /\ (w.ret = "more" /\ w.phase = w.pre.phase) =>
          w.outcome = "Ok" /\ w.accepted < w.offered

\* A failure in the Payload phase, in a poll call that had written bytes.
C13_Witness ==
    /\ w.outcome = "Err"
    /\ w.ret = "err"
    /\ w.phase = "Payload"
    /\ w.pre.ret = "more"
    /\ w.pre.sent > w.len

(***************************************************************************)
(* C14  reset closes the stream abruptly, with the code it is given, when  *)
(* the writer is in the Header or the Payload phase, and does not touch    *)
(* the stream when the writer is Finished; the stream is closed by nothing *)
(* else, and once reset has run no byte is written and nothing changes.    *)
(***************************************************************************)
C14_ResetClosesLiveStream ==
    /\ [](w.gone =>
            /\ w.reset = IF w.pre.phase \in {"Header", "Payload"}
                            THEN Some(w.code) ELSE None
            /\ Len(w.sent) = w.pre.sent
            /\ w.phase = w.pre.phase)
    /\ [](~w.gone => w.reset = None)
    /\ [][w.gone => w' = w]_vars

\* reset in the middle of the payload.
C14_Witness ==
    /\ w.gone
    /\ w.pre.phase = "Payload"
    /\ w.reset = Some(w.code)
    /\ w.p # <<>>
    /\ Len(w.sent) > w.len

(***************************************************************************)
(* C15  The code of an error is defined for every error and depends on the *)
(* error only: GENERAL_PROTOCOL_ERROR for an Io error, SETTINGS_ERROR for  *)
(* a Settings frame error, FRAME_UNEXPECTED for an UnsupportedFrame frame  *)
(* error, FRAME_ERROR for every other frame error.                         *)
(***************************************************************************)
C15_CodeOfError ==
    w.gone =>
        /\ w.resetErr \in Errors
        /\ w.code \in {"GENERAL_PROTOCOL_ERROR", "SETTINGS_ERROR",
                        "FRAME_UNEXPECTED", "FRAME_ERROR"}
        /\ w.resetErr.origin = "Io" <=> w.code = "GENERAL_PROTOCOL_ERROR"
        /\ (w.resetErr.origin = "Proto" /\ w.resetErr.kind = "Settings")
              <=> w.code = "SETTINGS_ERROR"
        /\ (w.resetErr.origin = "Proto" /\ w.resetErr.kind = "UnsupportedFrame")
              <=> w.code = "FRAME_UNEXPECTED"
        /\ (w.resetErr.origin = "Proto"
               /\ w.resetErr.kind \notin {"Settings", "UnsupportedFrame"})
              <=> w.code = "FRAME_ERROR"

\* The stream closed with the code of an UnsupportedFrame error.
C15_Witness ==
    /\ w.gone
    /\ w.resetErr = [origin |-> "Proto", kind |-> "UnsupportedFrame"]
    /\ w.reset = Some("FRAME_UNEXPECTED")

(***************************************************************************)
(* C16  The phase of the writer goes Header, Payload, Finished, never back *)
(* and never from Header to Finished.  A step leaves Header exactly when   *)
(* an accepting write brings the cursor to the header length, and leaves   *)
(* Payload exactly when an accepting write leaves no payload byte.  A      *)
(* write that accepts k bytes, fewer than offered, moves the cursor on by  *)
(* k, or drops the first k bytes of the remaining payload, and keeps the   *)
(* phase.                                                                  *)
(***************************************************************************)
PhaseSteps ==
    {<<"Header", "Header">>, <<"Header", "Payload">>,
     <<"Payload", "Payload">>, <<"Payload", "Finished">>,
     <<"Finished", "Finished">>}

Wrote(wr) == ~wr.gone /\ wr.panic = "" /\ wr.outcome = "Ok"

C16_PhaseOrder ==
    [][w.phase # "Off" =>
         /\ <<w.phase, w'.phase>> \in PhaseSteps
         /\ w.phase = "Header" =>
               (w'.phase = "Payload" <=> (Wrote(w') /\ w'.start = w.len))
         /\ w.phase = "Payload" =>
               (w'.phase = "Finished" <=> (Wrote(w') /\ w'.p = <<>>))
         /\ (w.phase # "Finished" /\ Wrote(w') /\ w'.accepted < w'.offered) =>
               /\ w'.phase = w.phase
               /\ w.phase = "Header" => w'.start = w.start + w'.accepted
               /\ w.phase = "Payload" => w'.p = Advance(w.p, w'.accepted)
               /\ Len(w'.sent) = Len(w.sent) + w'.accepted]_vars

\* A write in the Payload phase that accepted some of the bytes offered.
C16_Witness ==
    /\ w.phase = "Payload"
    /\ w.pre.phase = "Payload"
    /\ w.outcome = "Ok"
    /\ w.accepted > 1
    /\ w.accepted < w.offered
    /\ ~w.gone

(***************************************************************************)
(* C17  Doing it again changes nothing.  A decode call made right after a  *)
(* call that returned Ok(None), no byte having arrived in between, returns *)
(* Ok(None) and leaves the buffer, partial and expected as they were.  A   *)
(* write attempt the stream has no capacity for makes poll return Pending  *)
(* with no byte written and the phase, the cursor and the remaining        *)
(* payload as they were.                                                   *)
(***************************************************************************)
C17_Idempotent ==
    /\ last.again =>
          /\ last.res = "none"
          /\ src = last.src
          /\ partial = last.partial
          /\ expected = last.expected
    /\ w.outcome = "Pending" =>
          /\ w.ret = "pending"
          /\ Len(w.sent) = w.pre.sent
          /\ w.phase = w.pre.phase
          /\ w.start = w.pre.start
          /\ w.p = w.pre.p
          /\ w.returned = 0
    /\ w.ret = "pending" => w.outcome = "Pending"

\* A decode call repeated on a buffer that holds bytes, with the minimum
\* cached.
C17_Witness ==
    /\ last.again
    /\ last.res = "none"
    /\ src # <<>>
    /\ expected # None

\* A poll call that finds the stream without capacity, in the middle of
\* the payload, after one that did too.
C17_WitnessPending ==
    /\ w.outcome = "Pending"
    /\ w.pre.ret = "pending"
    /\ w.phase = "Payload"
    /\ w.p # <<>>
    /\ Len(w.sent) > w.len

(***************************************************************************)
(* C18  The cached expected minimum changes no result: at every call the   *)
(* decoder returns what a decoder that always parses returns, and leaves   *)
(* the same buffer and the same partial state.  While the head frame is a  *)
(* valid one, the cached minimum is never above the number of bytes at     *)
(* which that frame can first be decoded: its whole encoding, or its       *)
(* header for a Data frame.                                                *)
(***************************************************************************)
\* The number of buffered bytes from which valid frame f, at the head of the
\* buffer, is decoded.
Decodable(f) ==
    IF f.kind = "Data" THEN Len(EncodeHeader(f)) ELSE Len(Encode(f))

HeadFrame == FrameIndexAt(frames, Consumed)

C18_CacheIsOptimisation ==
    /\ plain.res = last.res
    /\ plain.frame = last.frame
    /\ plain.src = src
    /\ plain.partial = partial
    /\ (expected # None /\ HeadFrame > 0 /\ frames[HeadFrame] \in ValidFrames) =>
          /\ expected[1] <= Decodable(frames[HeadFrame])
          /\ expected[1] <= Len(wire) - Consumed

\* A call cut short by the cached minimum, on a buffer that holds bytes.
C18_Witness ==
    /\ last.res = "none"
    /\ last.expected # None
    /\ last.src # <<>>
    /\ Len(last.src) < last.expected[1]
    /\ last.parse = ""
    /\ plain.res = "none"
    /\ Len(src) > 2

(***************************************************************************)
(* C19  Whenever decode has returned: a live partial state owes at least   *)
(* one byte and goes with no expected minimum; and after a call that       *)
(* returned a frame, or that entered the partial state, there is no        *)
(* expected minimum.                                                       *)
(***************************************************************************)
C19_PartialExcludesExpected ==
    /\ partial # None => (partial[1] > 0 /\ expected = None)
    /\ last.res = "frame" => expected = None
    /\ (last.res # "init" /\ last.partial = None /\ partial # None) =>
          expected = None

\* The partial state entered by a call that found a minimum cached.
C19_Witness ==
    /\ last.res # "init"
    /\ last.partial = None
    /\ last.expected # None
    /\ partial # None
    /\ expected = None

(***************************************************************************)
(* C20  With a stream that never reports more bytes than it was offered,   *)
(* the writer, until Finished, keeps 0 <= start <= len <= 16, the header   *)
(* buffer's size, and holds the stored payload exactly in the Header       *)
(* phase; so the slice, the unwrap and the advance cannot panic, and poll  *)
(* panics only when called after it has returned the stream handle.        *)
(***************************************************************************)
C20_NoPanic ==
    /\ w.phase \in {"Header", "Payload"} =>
          /\ 0 <= w.start
          /\ w.start <= w.len
          /\ w.len <= VarIntMaxSize * 2
          /\ Len(w.h) = VarIntMaxSize * 2
          /\ w.phase = "Header" => w.start < w.len
          /\ w.payload # None <=> w.phase = "Header"
          /\ w.panic = ""
    /\ w.panic # "" =>
          /\ w.panic = "polled after finished"
          /\ w.pre.phase = "Finished"
          /\ w.returned = 1
    /\ w.phase = "Finished" => w.payload = None

\* poll called again on the writer of the long frame, once it has returned
\* the stream handle.
C20_Witness ==
    /\ w.panic = "polled after finished"
    /\ w.pre.ret = "ready"
    /\ w.returned = 1
    /\ w.len = 3

=============================================================================
